---- MODULE Spec2Model ----
(***************************************************************************)
(* A model of lib/cros_build_lib.py: the subprocess runner RunCommand, the *)
(* Color wrapper, the loggers Die / Warning / Info, and the path helpers   *)
(* FindRepoDir and ReinterpretPathForChroot.                               *)
(*                                                                         *)
(* Text that the code inspects character by character (commands, paths)   *)
(* is a sequence of one-character strings; text the code only passes       *)
(* around (messages, captured output) is a TLA+ string.                    *)
(***************************************************************************)
EXTENDS Integers, Sequences, FiniteSets, TLC

VARIABLES
  stdoutTty,      \* sys.stdout is a terminal at process start
  stderrTty,      \* sys.stderr is a terminal at process start
  STDOUT_IS_TTY,  \* the module global _STDOUT_IS_TTY
  outStream,      \* lines written to sys.stdout
  errStream,      \* lines written to sys.stderr
  exited,         \* sys.exit was called
  args,           \* RunCommand: the call's arguments
  pc,             \* position of the running function
  cmd,            \* RunCommand: local cmd (after the enter_chroot prefix)
  spawned,        \* RunCommand: argument vector handed to subprocess.Popen
  proc,           \* RunCommand: the child: started, its exit status, what it wrote
  output,         \* RunCommand: local output
  error,          \* RunCommand: local error
  exc,            \* RunCommand: the exception in flight
  outcome,        \* how the call ended: a return value or a raised error
  path,           \* path helpers: the argument of the call
  cwd,            \* os.getcwd()
  repos,          \* directories of the filesystem that hold a .repo directory
  cur,            \* FindRepoDir: local path
  found,          \* FindRepoDir: its return value
  user            \* ReinterpretPathForChroot: what os.getenv('USER') gave

logVars  == <<stdoutTty, stderrTty, STDOUT_IS_TTY, outStream, errStream, exited>>
runVars  == <<args, cmd, spawned, proc, output, error, exc>>
pathVars == <<path, cwd, repos, cur, found, user>>
vars     == <<logVars, runVars, pathVars, pc, outcome>>

(***************************************************************************)
(* Bounds of the model.                                                    *)
(***************************************************************************)
MaxRet   == 1   \* exit statuses 0 .. MaxRet
MaxLines == 3   \* logger calls in one behaviour of SpecLog
MaxLen   == 4   \* characters in the path given to the path helpers

(***************************************************************************)
(* Python values: None, str and int.                                       *)
(***************************************************************************)
PyNone   == [t |-> "None", s |-> "", n |-> 0]
PyStr(x) == [t |-> "str", s |-> x, n |-> 0]
PyInt(k) == [t |-> "int", s |-> "", n |-> k]
Truthy(v) == \/ v.t = "str" /\ v.s # ""
             \/ v.t = "int" /\ v.n # 0
\* Python's `a or b`
Or(a, b) == IF Truthy(a) THEN a ELSE b

(***************************************************************************)
(* Color                                                                   *)
(***************************************************************************)
BLACK   == 0
RED     == 1
GREEN   == 2
YELLOW  == 3
BLUE    == 4
MAGENTA == 5
CYAN    == 6
WHITE   == 7
BOLD    == -1

\* The escape sequence "\033[" p1 ";" p2 ... "m" is the sequence of its
\* numeric parameters; text without an escape has none.
COLOR_START(n) == <<1, n>>
BOLD_START     == <<1>>
NoEscape       == << >>

\* Color(enabled).Color(color, text): the written line, as its start escape,
\* its text and whether the reset escape "\033[0m" ends it.
ColorText(enabled, color, text) ==
  IF ~enabled
    THEN [start |-> NoEscape, text |-> text, reset |-> FALSE]
    ELSE [start |-> IF color = BOLD THEN BOLD_START ELSE COLOR_START(color + 30),
          text  |-> text,
          reset |-> TRUE]

(***************************************************************************)
(* Messages, and Die / Warning / Info:                                     *)
(* `print >> sys.stderr, Color(_STDOUT_IS_TTY).Color(...)`                 *)
(***************************************************************************)
\* A command (RunCommand's cmd): a str (its characters) or a list of str.
CmdStr(chars)  == [t |-> "str", chars |-> chars, items |-> << >>]
CmdList(items) == [t |-> "list", chars |-> << >>, items |-> items]
NoCmd          == CmdList(<< >>)

\* A message: fixed wording, the command formatted into it by %r, and the
\* text appended to it.
Text(what, c, detail) == [what |-> what, cmd |-> c, detail |-> detail]
Plain(what)           == Text(what, NoCmd, PyStr(""))

LogText(prefix, message) == [prefix |-> prefix, message |-> message]

\* The stream the loggers print to, after the line is written.
WriteErr(line) == errStream' = Append(errStream, line)

EmitDie(message) ==
  WriteErr(ColorText(STDOUT_IS_TTY, RED, LogText("\nERROR: ", message)))
EmitWarning(message) ==
  WriteErr(ColorText(STDOUT_IS_TTY, YELLOW, LogText("\nWARNING: ", message)))
EmitInfo(message) ==
  WriteErr(ColorText(STDOUT_IS_TTY, BLUE, LogText("\nINFO: ", message)))

(***************************************************************************)
(* RunCommand                                                              *)
(***************************************************************************)
ls    == <<"l", "s">>
dashl == <<"-", "l">>
Commands ==
  { CmdStr(ls), CmdStr(ls \o <<" ">> \o dashl),
    CmdList(<<ls>>), CmdList(<<ls, dashl>>) }
ErrorMessages == {PyNone, PyStr(""), PyStr("custom")}
\* What a child may write to its stdout and to its stderr.
StdoutTexts   == {"", "out"}
StderrTexts   == {"", "err"}

\* cwd and input only pass through to Popen and communicate, and are left out.
Arguments ==
  [ cmd : Commands, print_cmd : BOOLEAN, error_ok : BOOLEAN,
    error_message : ErrorMessages, exit_code : BOOLEAN,
    redirect_stdout : BOOLEAN, redirect_stderr : BOOLEAN,
    enter_chroot : BOOLEAN ]

NoProc   == [started |-> FALSE, returncode |-> 0, out |-> "", err |-> ""]
NoExc    == [type |-> "", text |-> Plain("")]
Running  == [kind |-> "running", value |-> PyNone, exc |-> NoExc]
Return(v) == [kind |-> "return", value |-> v, exc |-> NoExc]
Raise(e)  == [kind |-> "raise", value |-> PyNone, exc |-> e]

ChrootPrefix == << <<".", "/", "e", "n", "t", "e", "r", "_", "c", "h", "r",
                     "o", "o", "t", ".", "s", "h">>, <<"-", "-">> >>

\* subprocess.Popen's argument vector: a str is the program's name, whole.
PopenArgs(c) == IF c.t = "str" THEN <<c.chars>> ELSE c.items

\* A faulty variant of Communicated: a stream that is not piped reads as ''.
CommunicatedOrEmpty(piped, text) == PyStr(IF piped THEN text ELSE "")

\* What communicate() gives for a stream: its text when it is piped, else None.
Communicated(piped, text) == IF piped THEN PyStr(text) ELSE PyNone

\* A faulty variant of ExitCodeValue: the output is returned, not the status.
ExitCodeValueOutput(returncode, out) == out

\* `return proc.returncode`
ExitCodeValue(returncode, out) == PyInt(returncode)

\* A faulty variant of FailureRaised: the failure is raised whatever error_ok is, and
\* left to the except clause.
FailureRaisedAlways(error_ok, returncode) == returncode # 0

\* `not error_ok and proc.returncode`
FailureRaised(error_ok, returncode) == ~error_ok /\ returncode # 0

\* A faulty variant of FailureText: stdout takes priority over stderr.
FailureTextStdoutFirst(error_message, err, out) ==
  Or(Or(Or(error_message, out), err), PyStr(""))

\* `error_message or error or output or ''`
FailureText(error_message, err, out) ==
  Or(Or(Or(error_message, err), out), PyStr(""))

\* Lines 44-58: defaults, the enter_chroot prefix, the printed command.
RunEnter ==
  /\ pc = "RunCommand"
  /\ IF args.enter_chroot /\ args.cmd.t = "str"
       THEN \* list + str
            /\ outcome' = Raise([type |-> "TypeError", text |-> Plain("concatenate")])
            /\ pc' = "done"
            /\ UNCHANGED <<cmd, errStream>>
       ELSE /\ cmd' = IF args.enter_chroot
                        THEN CmdList(ChrootPrefix \o args.cmd.items)
                        ELSE args.cmd
            /\ IF args.print_cmd
                 THEN EmitInfo(Text("PROGRAM -> RunCommand in dir", cmd', PyNone))
                 ELSE UNCHANGED errStream
            /\ pc' = "try"
            /\ UNCHANGED outcome
  /\ UNCHANGED <<stdoutTty, stderrTty, STDOUT_IS_TTY, outStream, exited>>
  /\ UNCHANGED <<args, spawned, proc, output, error, exc>>
  /\ UNCHANGED pathVars

\* Lines 61-63: Popen and communicate. The program may not start (OSError);
\* when it starts, it writes what it writes and exits with some status.
RunSpawn ==
  /\ pc = "try"
  /\ spawned' = PopenArgs(cmd)
  /\ \/ /\ exc' = [type |-> "OSError", text |-> Plain("No such file or directory")]
        /\ pc' = "except"
        /\ UNCHANGED <<proc, output, error>>
     \/ \E rc \in 0..MaxRet, out \in StdoutTexts, err \in StderrTexts :
          /\ proc' = [started |-> TRUE, returncode |-> rc, out |-> out, err |-> err]
          /\ output' = Communicated(args.redirect_stdout, out)
          /\ error' = Communicated(args.redirect_stderr, err)
          /\ pc' = "check"
          /\ UNCHANGED exc
  /\ UNCHANGED <<args, cmd, outcome>>
  /\ UNCHANGED logVars
  /\ UNCHANGED pathVars

\* Lines 64-69: the exit status is returned, or a failure is raised.
RunCheck ==
  /\ pc = "check"
  /\ IF args.exit_code
       THEN /\ outcome' = Return(ExitCodeValue(proc.returncode, output))
            /\ pc' = "done"
            /\ UNCHANGED exc
       ELSE IF FailureRaised(args.error_ok, proc.returncode)
       THEN /\ exc' = [type |-> "Exception",
                       text |-> Text("Command failed.\n", cmd,
                                     FailureText(args.error_message, error, output))]
            /\ pc' = "except"
            /\ UNCHANGED outcome
       ELSE /\ pc' = "return"
            /\ UNCHANGED <<exc, outcome>>
  /\ UNCHANGED <<args, cmd, spawned, proc, output, error>>
  /\ UNCHANGED logVars
  /\ UNCHANGED pathVars

\* Lines 70-74: `except Exception, e`.
RunExcept ==
  /\ pc = "except"
  /\ IF ~args.error_ok
       THEN /\ outcome' = Raise(exc)
            /\ pc' = "done"
            /\ UNCHANGED errStream
       ELSE /\ EmitWarning(exc.text)
            /\ pc' = "return"
            /\ UNCHANGED outcome
  /\ UNCHANGED <<stdoutTty, stderrTty, STDOUT_IS_TTY, outStream, exited>>
  /\ UNCHANGED runVars
  /\ UNCHANGED pathVars

\* Line 76: `return output`.
RunReturn ==
  /\ pc = "return"
  /\ outcome' = Return(output)
  /\ pc' = "done"
  /\ UNCHANGED logVars
  /\ UNCHANGED runVars
  /\ UNCHANGED pathVars

\* The process starts: line 12 sets _STDOUT_IS_TTY, nothing is written yet.
ProcessStart ==
  /\ stdoutTty \in BOOLEAN
  /\ stderrTty \in BOOLEAN
  /\ STDOUT_IS_TTY = stdoutTty
  /\ outStream = << >>
  /\ errStream = << >>
  /\ exited = FALSE

NoRun ==
  /\ args = [ cmd |-> NoCmd, print_cmd |-> FALSE, error_ok |-> FALSE,
              error_message |-> PyNone, exit_code |-> FALSE,
              redirect_stdout |-> FALSE, redirect_stderr |-> FALSE,
              enter_chroot |-> FALSE ]
  /\ cmd = NoCmd
  /\ spawned = << >>
  /\ proc = NoProc
  /\ output = PyStr("")
  /\ error = PyNone
  /\ exc = NoExc

NoPath ==
  /\ path = [t |-> "None", chars |-> << >>]
  /\ cwd = <<"/">>
  /\ repos = {}
  /\ cur = << >>
  /\ found = [t |-> "None", chars |-> << >>]
  /\ user = [t |-> "None", chars |-> << >>]

\* A process that calls RunCommand once, with any arguments.
InitRun ==
  /\ ProcessStart
  /\ args \in Arguments
  /\ cmd = args.cmd
  /\ spawned = << >>
  /\ proc = NoProc
  /\ output = PyStr("")     \* line 47
  /\ error = PyNone
  /\ exc = NoExc
  /\ pc = "RunCommand"
  /\ outcome = Running
  /\ NoPath

NextRun == RunEnter \/ RunSpawn \/ RunCheck \/ RunExcept \/ RunReturn

SpecRun == InitRun /\ [][NextRun]_vars

(***************************************************************************)
(* Paths: str operations of os.path (posixpath) on sequences of            *)
(* characters.  The marker name '.repo' is kept as one symbol: no          *)
(* operation looks inside it.                                              *)
(***************************************************************************)
Chars  == {"/", "a", "b", "."}
Marker == <<".repo">>
Slash  == <<"/">>
DotDot == <<".", ".">>
Dot    == <<".">>

\* Path values: None or a str.
PNone    == [t |-> "None", chars |-> << >>]
PStr(cs) == [t |-> "str", chars |-> cs]

RECURSIVE PathsOfLen(_)
PathsOfLen(n) ==
  IF n = 0 THEN {<< >>}
  ELSE {Append(p, c) : p \in PathsOfLen(n - 1), c \in Chars}
Paths == UNION {PathsOfLen(n) : n \in 0..MaxLen}

StartsWith(s, pre) ==
  Len(pre) <= Len(s) /\ SubSeq(s, 1, Len(pre)) = pre
EndsWith(s, suf) ==
  Len(suf) <= Len(s) /\ SubSeq(s, Len(s) - Len(suf) + 1, Len(s)) = suf
AllSlashes(s) == \A i \in DOMAIN s : s[i] = "/"

\* s.rstrip('/')
RECURSIVE RStripSlash(_)
RStripSlash(s) ==
  IF s # << >> /\ s[Len(s)] = "/" THEN RStripSlash(SubSeq(s, 1, Len(s) - 1))
  ELSE s

\* os.path.dirname
Dirname(p) ==
  LET slashes == {k \in DOMAIN p : p[k] = "/"}
      i    == IF slashes = {} THEN 0
              ELSE CHOOSE k \in slashes : \A j \in slashes : j <= k
      head == SubSeq(p, 1, i)
  IN  IF head # << >> /\ ~AllSlashes(head) THEN RStripSlash(head) ELSE head

\* os.path.join(a, b)
Join(a, b) ==
  IF StartsWith(b, Slash) THEN b
  ELSE IF a = << >> \/ EndsWith(a, Slash) THEN a \o b
  ELSE a \o Slash \o b

\* s.split('/')
RECURSIVE SplitSlash(_, _)
SplitSlash(s, comp) ==
  IF s = << >> THEN <<comp>>
  ELSE IF Head(s) = "/" THEN <<comp>> \o SplitSlash(Tail(s), << >>)
  ELSE SplitSlash(Tail(s), Append(comp, Head(s)))

\* '/'.join(comps)
RECURSIVE JoinSlash(_)
JoinSlash(comps) ==
  IF comps = << >> THEN << >>
  ELSE IF Len(comps) = 1 THEN comps[1]
  ELSE comps[1] \o Slash \o JoinSlash(Tail(comps))

\* The loop of os.path.normpath over the components.
RECURSIVE NormComps(_, _, _)
NormComps(comps, new, initial) ==
  IF comps = << >> THEN new
  ELSE LET comp == Head(comps) IN
    IF comp = << >> \/ comp = Dot THEN NormComps(Tail(comps), new, initial)
    ELSE IF \/ comp # DotDot
            \/ (initial = 0 /\ new = << >>)
            \/ (new # << >> /\ new[Len(new)] = DotDot)
      THEN NormComps(Tail(comps), Append(new, comp), initial)
    ELSE IF new # << >>
      THEN NormComps(Tail(comps), SubSeq(new, 1, Len(new) - 1), initial)
    ELSE NormComps(Tail(comps), new, initial)

\* os.path.normpath
Normpath(p) ==
  IF p = << >> THEN Dot
  ELSE LET initial == IF ~StartsWith(p, Slash) THEN 0
                      ELSE IF StartsWith(p, <<"/", "/">>)
                              /\ ~StartsWith(p, <<"/", "/", "/">>) THEN 2
                      ELSE 1
           body == JoinSlash(NormComps(SplitSlash(p, << >>), << >>, initial))
           q    == [i \in 1..initial |-> "/"] \o body
       IN  IF q = << >> THEN Dot ELSE q

\* os.path.abspath, in the working directory wd
Abspath(p, wd) ==
  Normpath(IF StartsWith(p, Slash) THEN p ELSE Join(wd, p))

\* s.replace(old, '') for a non-empty old: every occurrence, left to right.
RECURSIVE Replace(_, _)
Replace(s, old) ==
  IF Len(s) < Len(old) THEN s
  ELSE IF StartsWith(s, old) THEN Replace(SubSeq(s, Len(old) + 1, Len(s)), old)
  ELSE <<Head(s)>> \o Replace(Tail(s), old)

(***************************************************************************)
(* The filesystem: a fixed tree of directories, each named by the names on *)
(* its way from the root, and the set repos of those holding '.repo'.      *)
(***************************************************************************)
Root  == << >>
Dirs  == { Root, <<<<"a">>>>, <<<<"a">>, <<"b">>>>, <<<<"b">>>> }
NoDir == <<<<"?">>>>
WorkingDirs == { Slash, <<"/", "a">> }

Existing(rs) == Dirs \cup {Append(d, Marker) : d \in rs}

\* The directory the kernel reaches from d along comps, NoDir if a name on
\* the way is no directory.
RECURSIVE Walk(_, _, _)
Walk(d, comps, rs) ==
  IF comps = << >> THEN d
  ELSE LET comp == Head(comps) IN
    IF comp = << >> \/ comp = Dot THEN Walk(d, Tail(comps), rs)
    ELSE IF comp = DotDot
      THEN Walk(IF d = Root THEN Root ELSE SubSeq(d, 1, Len(d) - 1),
                Tail(comps), rs)
    ELSE IF Append(d, comp) \in Existing(rs)
      THEN Walk(Append(d, comp), Tail(comps), rs)
    ELSE NoDir

\* The directory a path names for a process whose working directory is wd.
Resolve(p, wd, rs) ==
  Walk(IF StartsWith(p, Slash) THEN Root
       ELSE Walk(Root, SplitSlash(wd, << >>), rs),
       SplitSlash(p, << >>), rs)

\* os.path.isdir
IsDir(p, wd, rs) == p # << >> /\ Resolve(p, wd, rs) # NoDir

(***************************************************************************)
(* FindRepoDir and ReinterpretPathForChroot.  The process calls            *)
(* ReinterpretPathForChroot(path), whose first step is FindRepoDir(path);  *)
(* at pc = "root_path" FindRepoDir has returned `found` to its caller.     *)
(***************************************************************************)
Home  == <<"/", "h", "o", "m", "e">>
Trunk == <<"t", "r", "u", "n", "k">>
Users == {PNone, PStr(<<"u">>)}     \* os.getenv('USER'): unset, or a name

\* `repo_dir = os.path.join(path, '.repo')`
RepoDir(p) == Join(p, Marker)

\* A faulty variant of HasRepo: the marker is looked for one directory too high.
HasRepoInParent(p, wd, rs) == IsDir(Join(Dirname(p), Marker), wd, rs)

\* `os.path.isdir(repo_dir)`
HasRepo(p, wd, rs) == IsDir(RepoDir(p), wd, rs)

\* Lines 147-148: the default path is the working directory.
FindEnter ==
  /\ pc = "FindRepoDir"
  /\ cur' = IF path = PNone THEN cwd ELSE path.chars
  /\ pc' = "while"
  /\ UNCHANGED <<path, cwd, repos, found, user, outcome>>
  /\ UNCHANGED <<logVars, runVars>>

\* Line 149 and line 154: the loop's test, and the return after the loop.
FindTest ==
  /\ pc = "while"
  /\ IF cur # Slash
       THEN pc' = "body" /\ UNCHANGED found
       ELSE pc' = "root_path" /\ found' = PNone
  /\ UNCHANGED <<path, cwd, repos, cur, user, outcome>>
  /\ UNCHANGED <<logVars, runVars>>

\* Lines 150-153: the loop's body.
FindBody ==
  /\ pc = "body"
  /\ IF HasRepo(cur, cwd, repos)
       THEN /\ found' = PStr(RepoDir(cur))
            /\ pc' = "root_path"
            /\ UNCHANGED cur
       ELSE /\ cur' = Dirname(cur)
            /\ pc' = "while"
            /\ UNCHANGED found
  /\ UNCHANGED <<path, cwd, repos, user, outcome>>
  /\ UNCHANGED <<logVars, runVars>>

\* `path_abs_path.replace(root_abs_path, '')[1:]`
RelativePath(path_abs, root_abs) ==
  LET stripped == Replace(path_abs, root_abs)
  IN  SubSeq(stripped, 2, Len(stripped))

\* `if relative_path == path_abs_path`
OutsideTree(relative, path_abs) == relative = path_abs

PathError(type, what) == [type |-> type, text |-> Plain(what)]

\* Lines 163-175, once FindRepoDir has returned.
Reinterpret ==
  /\ pc = "root_path"
  /\ pc' = "done"
  /\ \E u \in Users :
       /\ user' = u
       /\ IF found = PNone \/ path = PNone
            THEN \* os.path.join(None, '..'), os.path.abspath(None)
                 outcome' = Raise(PathError("AttributeError", "NoneType"))
            ELSE
              LET root_path     == Join(found.chars, DotDot)
                  path_abs_path == Abspath(path.chars, cwd)
                  root_abs_path == Abspath(root_path, cwd)
                  relative_path == RelativePath(path_abs_path, root_abs_path)
              IN  IF OutsideTree(relative_path, path_abs_path)
                    THEN outcome' = Raise(PathError("Exception",
                           "Error: path is outside your src tree, cannot reinterpret."))
                  ELSE IF u = PNone
                    THEN \* os.path.join('/home', None, ...)
                         outcome' = Raise(PathError("AttributeError", "NoneType"))
                  ELSE outcome' = Return(PStr(
                         Join(Join(Join(Home, u.chars), Trunk), relative_path)))
  /\ UNCHANGED <<path, cwd, repos, cur, found>>
  /\ UNCHANGED <<logVars, runVars>>

InitPath ==
  /\ ProcessStart
  /\ stdoutTty = FALSE /\ stderrTty = FALSE
  /\ NoRun
  /\ path \in {PNone} \cup {PStr(p) : p \in Paths}
  /\ cwd \in WorkingDirs
  /\ repos \in SUBSET Dirs
  /\ cur = << >>
  /\ found = PNone
  /\ user = PNone
  /\ pc = "FindRepoDir"
  /\ outcome = Running

NextPath == FindEnter \/ FindTest \/ FindBody \/ Reinterpret

\* Nothing but the process itself keeps a running call from its next step.
SpecPath     == InitPath /\ [][NextPath]_vars
FairSpecPath == SpecPath /\ WF_vars(NextPath)

(***************************************************************************)
(* A process that calls the loggers, at most MaxLines times.               *)
(***************************************************************************)
Messages == {Plain("disk full"), Plain("")}

Die(message) ==
  /\ pc = "main" /\ ~exited /\ Len(errStream) < MaxLines
  /\ EmitDie(message)
  /\ exited' = TRUE          \* sys.exit(1)
  /\ pc' = "done"
  /\ UNCHANGED <<stdoutTty, stderrTty, STDOUT_IS_TTY, outStream>>
  /\ UNCHANGED <<runVars, pathVars, outcome>>

Warning(message) ==
  /\ pc = "main" /\ ~exited /\ Len(errStream) < MaxLines
  /\ EmitWarning(message)
  /\ UNCHANGED <<stdoutTty, stderrTty, STDOUT_IS_TTY, outStream, exited>>
  /\ UNCHANGED <<runVars, pathVars, pc, outcome>>

Info(message) ==
  /\ pc = "main" /\ ~exited /\ Len(errStream) < MaxLines
  /\ EmitInfo(message)
  /\ UNCHANGED <<stdoutTty, stderrTty, STDOUT_IS_TTY, outStream, exited>>
  /\ UNCHANGED <<runVars, pathVars, pc, outcome>>

CallDie     == \E m \in Messages : Die(m)
CallWarning == \E m \in Messages : Warning(m)
CallInfo    == \E m \in Messages : Info(m)

InitLog ==
  /\ ProcessStart
  /\ NoRun
  /\ NoPath
  /\ pc = "main"
  /\ outcome = Running

NextLog == CallDie \/ CallWarning \/ CallInfo

SpecLog == InitLog /\ [][NextLog]_vars

(***************************************************************************)
(* Properties of RunCommand, checked under SpecRun.                        *)
(***************************************************************************)
Done      == pc = "done"
Returned  == Done /\ outcome.kind = "return"
Raised    == Done /\ outcome.kind = "raise"
ExitedNonzero == proc.started /\ proc.returncode # 0
HasWarning ==
  \E i \in DOMAIN errStream : errStream[i].text.prefix = "\nWARNING: "

\* The first text of a sequence of Python values that is a non-empty str;
\* "" when there is none.
RECURSIVE FirstNonEmpty(_)
FirstNonEmpty(vs) ==
  IF vs = << >> THEN ""
  ELSE IF Head(vs).t = "str" /\ Head(vs).s # "" THEN Head(vs).s
  ELSE FirstNonEmpty(Tail(vs))

\* What the call captured of a stream of the child: nothing unless redirected.
Captured(redirect, text) == IF redirect THEN <<PyStr(text)>> ELSE << >>

\* C1: with exit_code=False and error_ok=False, a child that exits nonzero
\* makes RunCommand raise (it never reaches its return), and the raised
\* error's message ends with the first non-empty of error_message, the
\* captured stderr, the captured stdout.
C1_FailureRaisesFirstNonEmpty ==
  (~args.exit_code /\ ~args.error_ok /\ ExitedNonzero) =>
    /\ pc # "return"
    /\ Done =>
         /\ outcome.kind = "raise"
         /\ outcome.exc.type = "Exception"
         /\ outcome.exc.text.detail =
              PyStr(FirstNonEmpty(<<args.error_message>>
                                  \o Captured(args.redirect_stderr, proc.err)
                                  \o Captured(args.redirect_stdout, proc.out)))

\* C1 witness: such a call has raised, with no custom message and an empty
\* captured stderr, so that the captured stdout is the text carried.
C1_Witness ==
  /\ Raised /\ ~args.exit_code /\ ~args.error_ok /\ ExitedNonzero
  /\ ~Truthy(args.error_message)
  /\ args.redirect_stderr /\ proc.err = ""
  /\ args.redirect_stdout /\ proc.out = "out"
  /\ outcome.exc.text.detail = PyStr("out")

\* C2 as claimed: with error_ok=True and exit_code=False, a child that exits
\* nonzero makes RunCommand return without raising, a warning line having
\* been written to the diagnostic stream.
C2_SuppressedFailureWarns ==
  (Done /\ args.error_ok /\ ~args.exit_code /\ ExitedNonzero) =>
    outcome.kind = "return" /\ HasWarning

\* C2 as amended: with error_ok=True and exit_code=False, a child that exits
\* nonzero makes RunCommand return without raising and without any warning
\* line: the failure check is skipped, nothing is raised, nothing is logged.
C2_SuppressedFailureIsSilent ==
  (args.error_ok /\ ~args.exit_code /\ ExitedNonzero) =>
    /\ pc # "except"
    /\ Done => outcome.kind = "return" /\ ~HasWarning

\* C2 witness: such a call has returned.
C2_Witness ==
  Returned /\ args.error_ok /\ ~args.exit_code /\ ExitedNonzero

\* C3 as claimed (for a cmd given as a sequence): with exit_code=True the
\* call never raises and returns the integer exit status, whether the
\* command succeeds, exits nonzero or cannot be started.
C3_ExitCodeNeverRaises ==
  (Done /\ args.exit_code /\ args.cmd.t = "list") =>
    outcome.kind = "return" /\ outcome.value.t = "int"

\* C3 as amended: with exit_code=True, whenever the child was started the
\* call returns its integer exit status without raising, whatever error_ok
\* and the status are; when the child could not be started the call raises
\* if error_ok=False and otherwise writes a warning and returns ''; a str
\* cmd with enter_chroot=True raises before anything is started.
C3_ExitCodeReturnsStatusOfStartedChild ==
  (Done /\ args.exit_code) =>
    IF proc.started
      THEN outcome = Return(PyInt(proc.returncode))
      ELSE IF args.error_ok /\ ~(args.enter_chroot /\ args.cmd.t = "str")
      THEN outcome = Return(PyStr("")) /\ HasWarning
      ELSE outcome.kind = "raise"

\* C3 witness: a call with exit_code=True and error_ok=False has returned
\* the nonzero status of its child.
C3_Witness ==
  /\ Returned /\ args.exit_code /\ ~args.error_ok /\ ExitedNonzero
  /\ outcome.value = PyInt(proc.returncode)

\* C4 as claimed: a call with exit_code=False that returns gives the
\* captured stdout when redirect_stdout=True and the command succeeded, and
\* '' when stdout was not captured or a failure was suppressed by error_ok.
C4_ReturnsStdoutOrEmpty ==
  (Returned /\ ~args.exit_code) =>
    outcome.value =
      IF args.redirect_stdout /\ proc.started /\ proc.returncode = 0
        THEN PyStr(proc.out)
        ELSE PyStr("")

\* C4 as amended: a call with exit_code=False that returns gives the
\* captured stdout when redirect_stdout=True and the child was started
\* (whether it succeeded or its nonzero exit was suppressed by error_ok),
\* None when the child was started with stdout not captured, and '' only
\* when the child could not be started and error_ok suppressed that.
C4_ReturnsWhatWasCommunicated ==
  (Returned /\ ~args.exit_code) =>
    outcome.value =
      IF ~proc.started THEN PyStr("")
      ELSE IF args.redirect_stdout THEN PyStr(proc.out)
      ELSE PyNone

\* C4 witness: a call whose child exited nonzero, suppressed by error_ok,
\* has returned the non-empty stdout it captured.
C4_Witness ==
  /\ Returned /\ ~args.exit_code /\ args.error_ok /\ ExitedNonzero
  /\ args.redirect_stdout /\ outcome.value = PyStr("out")

\* str.split(): the words of a text, split on runs of blanks.
RECURSIVE Split(_, _)
Split(chars, word) ==
  IF chars = << >>
    THEN IF word = << >> THEN << >> ELSE <<word>>
  ELSE IF Head(chars) = " "
    THEN (IF word = << >> THEN << >> ELSE <<word>>) \o Split(Tail(chars), << >>)
  ELSE Split(Tail(chars), Append(word, Head(chars)))

\* C5: the argument vector handed to Popen is cmd split on whitespace when
\* cmd is a str, and cmd element for element when it is a sequence, after
\* the './enter_chroot.sh', '--' prefix when enter_chroot=True.
C5_StringCmdIsSplit ==
  (spawned # << >>) =>
    spawned = (IF args.enter_chroot THEN ChrootPrefix ELSE << >>)
              \o (IF args.cmd.t = "str"
                    THEN Split(args.cmd.chars, << >>)
                    ELSE args.cmd.items)

(***************************************************************************)
(* Properties of the loggers, checked under SpecLog.                       *)
(***************************************************************************)
Escaped(line) == line.start # NoEscape \/ line.reset

\* C9: every line of Info, Warning and Die goes to standard error, and it
\* holds color escapes only if standard error was a terminal at process
\* start.
C9_ColorOnlyIfStderrIsTty ==
  /\ outStream = << >>
  /\ \A i \in DOMAIN errStream : Escaped(errStream[i]) => stderrTty

(***************************************************************************)
(* Properties of the path helpers, checked under SpecPath (C10 under       *)
(* FairSpecPath).                                                          *)
(***************************************************************************)
FindReturned == pc \in {"root_path", "done"}

\* The directories FindRepoDir's walk looks into, nearest first: the start,
\* its dirname, and so on, as far as '/' (not looked into) or as far as a
\* path that is its own dirname.
RECURSIVE Visited(_)
Visited(p) ==
  IF p = Slash THEN << >>
  ELSE IF Dirname(p) = p THEN <<p>>
  ELSE <<p>> \o Visited(Dirname(p))

Start == IF path = PNone THEN cwd ELSE path.chars

\* The directory named by p holds a '.repo' directory.
HoldsMarker(p) == Resolve(p, cwd, repos) \in repos

\* An absolute path in normal form: one leading '/', no empty, '.' or '..' name.
Normal(p) ==
  StartsWith(p, Slash) /\ ~StartsWith(p, <<"/", "/">>) /\ Normpath(p) = p
\* The text of a directory of the tree.
DirText(d) == Slash \o JoinSlash(d)
\* The proper prefixes of p's directory and that directory, the root left out.
Ancestors(p) ==
  LET d == NormComps(SplitSlash(p, << >>), << >>, 1)
  IN  {SubSeq(d, 1, k) : k \in 1..Len(d)}
Nearest(ds) == CHOOSE d \in ds : \A e \in ds : Len(e) <= Len(d)

\* C6 as claimed (for an absolute path in normal form): FindRepoDir returns
\* None when no ancestor of path up to '/' holds '.repo', and otherwise
\* returns the nearest ancestor that holds it.
C6_ReturnsNearestAncestor ==
  (FindReturned /\ path # PNone /\ Normal(path.chars)) =>
    LET holders == Ancestors(path.chars) \cap repos
    IN  IF holders = {} THEN found = PNone
        ELSE found = PStr(DirText(Nearest(holders)))

\* C6 as amended: whenever FindRepoDir returns, it returns None only if
\* its walk reached '/' and none of the directories it looked into (path,
\* its dirname, ..., '/' itself left out) holds '.repo'; otherwise it
\* returns the path of the '.repo' directory itself, joined to the nearest
\* of these directories that holds one.  For an absolute path in normal
\* form that is the '.repo' of the nearest ancestor below '/' holding one.
C6_ReturnsNearestRepoDir ==
  FindReturned =>
    LET walk == Visited(Start)
        hits == {i \in DOMAIN walk : HoldsMarker(walk[i])}
    IN  /\ IF hits = {}
             THEN found = PNone /\ (walk = << >> \/ Dirname(walk[Len(walk)]) = Slash)
             ELSE LET i == CHOOSE k \in hits : \A j \in hits : k <= j
                  IN  found = PStr(Join(walk[i], Marker))
        /\ (path # PNone /\ Normal(path.chars)) =>
             LET holders == Ancestors(path.chars) \cap repos
             IN  IF holders = {} THEN found = PNone
                 ELSE found = PStr(DirText(Nearest(holders)) \o Slash \o Marker)

\* C6 witness: FindRepoDir('/a/b') has returned '/a/b/.repo' while '/a'
\* holds a '.repo' too.
C6_Witness ==
  /\ FindReturned
  /\ path = PStr(<<"/", "a", "/", "b">>)
  /\ {<<<<"a">>>>, <<<<"a">>, <<"b">>>>} \subseteq repos
  /\ found = PStr(<<"/", "a", "/", "b", "/", ".repo">>)

\* The source root detected from the marker directory, and the absolute
\* form of path.
RootAbs == Abspath(Join(found.chars, DotDot), cwd)
PathAbs == Abspath(path.chars, cwd)
\* p lies under the directory r: it is r, or r followed by a separator and
\* more.
Under(p, r) ==
  p = r \/ StartsWith(p, IF r = Slash THEN r ELSE r \o Slash)
RootDetected == pc = "done" /\ found # PNone /\ path # PNone

\* C7: ReinterpretPathForChroot fails with an error whenever the absolute
\* form of path does not lie under the detected source root; it returns no
\* remapped path for such a path.
C7_OutsideTreeRaises ==
  (RootDetected /\ ~Under(PathAbs, RootAbs)) => outcome.kind = "raise"

\* C8 (for a source root other than '/'): for a path under the detected
\* source root and a set USER, ReinterpretPathForChroot returns exactly
\* '/home/<USER>/trunk/<relative-path>', the relative path being the
\* absolute path less the leading root prefix and one separator.
C8_ReturnsPathUnderTrunk ==
  (RootDetected /\ user # PNone /\ RootAbs # Slash /\ Under(PathAbs, RootAbs)) =>
    outcome = Return(PStr(
      Home \o Slash \o user.chars \o Slash \o Trunk \o Slash
      \o SubSeq(PathAbs, Len(RootAbs) + 2, Len(PathAbs))))

\* C10: FindRepoDir returns, a path or None, for every path it is given.
C10_FindRepoDirTerminates == <>FindReturned

====
